---- MODULE Spec2Model ----
(***************************************************************************)
(* A model of pydevice42's D42Client (src/pydevice42/d42client.py):        *)
(*   - the request path: _request, _check_err, _get_object, _post_object,  *)
(*     _put_object, _delete_object and the PostRes tuple of types.py;      *)
(*   - the listing path: extract_data, the generator _paginated_request    *)
(*     and the chain of _flattened_paginated_request.                      *)
(* JSON values are tagged records, Python strings are TLA+ strings.        *)
(***************************************************************************)
EXTENDS Integers, Sequences, FiniteSets, TLC

VARIABLES
    op,        \* the last single-object operation: its name, method and response
    res,       \* what that operation returned or raised
    total,     \* number of records the server holds
    server,    \* "honest": answers records[offset : offset+limit]; "arbitrary": any envelope
    heap,      \* the params mappings: heap[d] is the dict object d
    gen,       \* gen[c]: the generator frame of listing call c (_paginated_request)
    requests,  \* requests[c]: the (offset, limit) of every page request call c issued
    pages,     \* pages[c]: the pages call c yielded, in order
    cur,       \* cur[c]: what is left of the page the chain is iterating
    out,       \* out[c]: the records the flattened sequence has produced
    pulls,     \* pulls[c]: how many times the generator of call c was resumed
    statuses,  \* statuses[c]: the status code of every response call c received
    supplied   \* supplied[d]: the dict object d as the caller made it

reqVars  == <<op, res>>
listVars == <<total, server, heap, gen, requests, pages, cur, out, pulls, statuses,
             supplied>>
vars     == <<op, res, total, server, heap, gen, requests, pages, cur, out, pulls,
             statuses, supplied>>

----------------------------------------------------------------------------
(* Bounds of the model                                                     *)

MaxRecords == 3
MaxLimit   == 2
MaxMsgLen  == 6

\* Enough requests for every honest run (at most MaxRecords of them) plus
\* room for a listing that keeps going.
MaxRequests == MaxRecords + 2

----------------------------------------------------------------------------
(* JSON values and Python strings                                          *)

JStr(s)   == [t |-> "str",  s |-> s,  i |-> 0, l |-> <<>>]
JInt(i)   == [t |-> "int",  s |-> "", i |-> i, l |-> <<>>]
JBool(b)  == [t |-> "bool", s |-> "", i |-> IF b THEN 1 ELSE 0, l |-> <<>>]
JNull     == [t |-> "null", s |-> "", i |-> 0, l |-> <<>>]
JList(l)  == [t |-> "list", s |-> "", i |-> 0, l |-> l]
\* An object keeps its items in insertion order, as a Python dict does.
JObj(kvs) == [t |-> "obj",  s |-> "", i |-> 0, l |-> kvs]
KV(k, v) == [k |-> k, v |-> v]

HasKey(o, k) == \E n \in 1..Len(o.l) : o.l[n].k = k

\* dict.get(k, default)
Get(o, k, default) ==
    IF HasKey(o, k)
    THEN o.l[CHOOSE n \in 1..Len(o.l) : o.l[n].k = k].v
    ELSE default

Char(s, n) == SubSeq(s, n, n)

\* str.startswith
StartsWith(s, prefix) ==
    /\ Len(s) >= Len(prefix)
    /\ SubSeq(s, 1, Len(prefix)) = prefix

Digit(d) == Char("0123456789", d + 1)

RECURSIVE NatStr(_)
NatStr(n) == IF n < 10 THEN Digit(n) ELSE NatStr(n \div 10) \o Digit(n % 10)

\* str(x) of a JSON scalar
PyStr(v) ==
    CASE v.t = "str"  -> v.s
      [] v.t = "int"  -> IF v.i < 0 THEN "-" \o NatStr(0 - v.i) ELSE NatStr(v.i)
      [] v.t = "bool" -> IF v.i = 1 THEN "True" ELSE "False"
      [] v.t = "null" -> "None"
      [] OTHER        -> "[...]"

\* iter(x): the items a value yields when iterated; a string yields its
\* characters, an object its keys
Iterable(v) == v.t \in {"str", "list", "obj"}

Items(v) ==
    CASE v.t = "list" -> v.l
      [] v.t = "str"  -> [n \in 1..Len(v.s) |-> JStr(Char(v.s, n))]
      [] v.t = "obj"  -> [n \in 1..Len(v.l) |-> JStr(v.l[n].k)]
      [] OTHER        -> <<>>

\* sep.join(strs)
RECURSIVE Join(_, _)
Join(sep, strs) ==
    IF strs = <<>> THEN ""
    ELSE IF Len(strs) = 1 THEN strs[1]
    ELSE strs[1] \o sep \o Join(sep, Tail(strs))

\* bool(x)
Truthy(v) ==
    CASE v.t = "str"  -> v.s # ""
      [] v.t = "int"  -> v.i # 0
      [] v.t = "bool" -> v.i = 1
      [] v.t = "null" -> FALSE
      [] OTHER        -> v.l # <<>>

----------------------------------------------------------------------------
(* Outcomes: a returned value or a raised exception                        *)

Return(v)         == [kind |-> "return", msg |-> "", status |-> 0, val |-> v]
Raise(kind, msg)  == [kind |-> kind, msg |-> msg, status |-> 0, val |-> JNull]
\* requests.HTTPError keeps the response: its status code and its body
HTTPError(resp)   == [kind |-> "HTTPError", msg |-> "", status |-> resp.status,
                      val |-> resp.body]
Raised(o)         == o.kind \notin {"return", "PostRes"}

----------------------------------------------------------------------------
(* int(x), as _check_err and int_cast use it                               *)

IsDigits(s) == Len(s) > 0 /\ \A n \in 1..Len(s) : \E d \in 0..9 : Char(s, n) = Digit(d)

DigitOf(c) == CHOOSE d \in 0..9 : Digit(d) = c

RECURSIVE ParseNat(_)
ParseNat(s) ==
    IF Len(s) = 1 THEN DigitOf(s)
    ELSE 10 * ParseNat(SubSeq(s, 1, Len(s) - 1)) + DigitOf(Char(s, Len(s)))

PyInt(v) ==
    CASE v.t \in {"int", "bool"} -> Return(JInt(v.i))
      [] v.t = "str" -> IF IsDigits(v.s) THEN Return(JInt(ParseNat(v.s)))
                        ELSE Raise("ValueError", "invalid literal for int()")
      [] OTHER -> Raise("TypeError", "int() argument must be a string or a number")

int_cast(v) == PyInt(v)

----------------------------------------------------------------------------
(* The request path                                                        *)

\* requests.Response.raise_for_status: HTTPError for 4xx and 5xx only
RaisesForStatus(status) == status >= 400 /\ status < 600

\* D42Client._check_err
\* _check_err must name the message after joining it the way the code does.
CheckErrMessage(ret_msg) ==
    Join(" ", [n \in 1..Len(Items(ret_msg)) |-> PyStr(Items(ret_msg)[n])])

_check_err(jres) ==
    IF jres.t # "obj" THEN Raise("TypeError", "indices must be integers")
    ELSE IF ~HasKey(jres, "code") THEN Raise("KeyError", "code")
    ELSE LET code    == PyInt(Get(jres, "code", JNull))
             ret_msg == Get(jres, "msg", JList(<<>>))
         IN  IF Raised(code) THEN code
             ELSE IF code.val.i # 0
                  THEN IF Iterable(ret_msg)
                       THEN Raise("ReturnCodeException", CheckErrMessage(ret_msg))
                       ELSE Raise("TypeError", "object is not iterable")
                  ELSE Return(ret_msg)

\* The except clause of _request for a 500: the license classification.
\* Only the JSON decode error of the body is caught there; an AttributeError
\* from .get or .startswith on a value that has neither is not.
LicenseCheck(resp) ==
    IF ~resp.json THEN HTTPError(resp)     \* JSONDecodeError is swallowed, then raise
    ELSE IF resp.body.t # "obj" THEN Raise("AttributeError", "no attribute 'get'")
    ELSE LET msg == Get(resp.body, "msg", JStr(""))
         IN  IF msg.t # "str" THEN Raise("AttributeError", "no attribute 'startswith'")
             ELSE IF StartsWith(msg.s, "License expired")
                  THEN Raise("LicenseExpiredException", msg.s)
             ELSE IF StartsWith(msg.s, "License is not valid for")
                  THEN Raise("LicenseInsufficientException", msg.s)
             ELSE HTTPError(resp)

\* A _request that looks for a license message on every error status
_request_any_status(method, resp) ==
    IF RaisesForStatus(resp.status) THEN LicenseCheck(resp)
    ELSE IF ~resp.json THEN Raise("JSONDecodeError", "Expecting value")
    ELSE IF method \in {"POST", "PUT"} THEN _check_err(resp.body)
    ELSE Return(resp.body)

\* D42Client._request
_request(method, resp) ==
    IF RaisesForStatus(resp.status)
    THEN IF resp.status = 500 THEN LicenseCheck(resp) ELSE HTTPError(resp)
    ELSE IF ~resp.json THEN Raise("JSONDecodeError", "Expecting value")
    ELSE IF method \in {"POST", "PUT"} THEN _check_err(resp.body)
    ELSE Return(resp.body)

\* types.PostRes(*args): three to five positional fields, the last two
\* defaulting to None
PostRes(args) ==
    IF Len(args) < 3 THEN Raise("TypeError", "missing required positional arguments")
    ELSE IF Len(args) > 5 THEN Raise("TypeError", "too many positional arguments")
    ELSE [kind |-> "PostRes", msg |-> "", status |-> 0,
          val |-> [message    |-> args[1],
                   id         |-> args[2],
                   identifier |-> args[3],
                   created    |-> IF Len(args) >= 4 THEN args[4] ELSE JNull,
                   updated    |-> IF Len(args) >= 5 THEN args[5] ELSE JNull]]

\* D42Client._post_object and _put_object: PostRes(*self._request(...))
Mutate(method, resp) ==
    LET r == _request(method, resp)
    IN  IF Raised(r) THEN r
        ELSE IF ~Iterable(r.val) THEN Raise("TypeError", "argument after * must be an iterable")
        ELSE PostRes(Items(r.val))

_post_object(resp) == Mutate("POST", resp)
_put_object(resp)  == Mutate("PUT", resp)
_get_object(resp)  == _request("GET", resp)
_delete_object(resp) == _request("DELETE", resp)

----------------------------------------------------------------------------
(* The responses a single-object operation may receive                     *)

\* The success tuple (message, id, identifier, created, updated), and what a
\* longer msg would carry after it
TupleItem(n) ==
    CASE n = 1 -> JStr("Widget added")
      [] n = 2 -> JInt(42)
      [] n = 3 -> JStr("widget-42")
      [] n = 4 -> JBool(TRUE)
      [] n = 5 -> JBool(FALSE)
      [] OTHER -> JStr("extra")

StringMsgs ==
    { "License expired for feature X", "License expired",
      "License is not valid for this module", "License is not valid",
      "Your License expired", "license expired", "Widget added",
      "Bad request", "abc", "" }

ListMsgs ==
    { [n \in 1..k |-> TupleItem(n)] : k \in 0..MaxMsgLen }
      \cup { <<JStr("Name is required")>>,
             <<JStr("Name is required"), JStr("Invalid type")>>,
             <<JStr("License expired")>> }

MsgValues ==
    { JStr(m) : m \in StringMsgs } \cup { JList(l) : l \in ListMsgs }
      \cup { JNull, JInt(7) }

CodeValues == { JInt(0), JInt(1), JInt(17), JStr("0"), JStr("2"), JNull }

Statuses == { 200, 201, 304, 400, 404, 500, 503 }

Bodies ==
    { JObj(<<KV("code", c), KV("msg", m)>>) : c \in CodeValues, m \in MsgValues }
      \cup { JObj(<<KV("code", c)>>) : c \in CodeValues }
      \cup { JObj(<<KV("msg", m)>>) : m \in MsgValues }
      \cup { JObj(<<>>), JList(<<>>), JStr("error") }

\* A response: its status code, whether its body decodes as JSON, and the body
ReqResponses ==
    { [status |-> st, json |-> TRUE, body |-> b] : st \in Statuses, b \in Bodies }
      \cup { [status |-> st, json |-> FALSE, body |-> JStr("<html>Server Error</html>")] :
             st \in Statuses }

NoResponse == [status |-> 0, json |-> FALSE, body |-> JNull]
NoOp       == [name |-> "none", method |-> "none", resp |-> NoResponse]
NoResult   == [kind |-> "none", msg |-> "", status |-> 0, val |-> JNull]

GetObject ==
    /\ op = NoOp
    /\ \E resp \in ReqResponses :
         /\ op'  = [name |-> "_get_object", method |-> "GET", resp |-> resp]
         /\ res' = _get_object(resp)
    /\ UNCHANGED listVars

PostObject ==
    /\ op = NoOp
    /\ \E resp \in ReqResponses :
         /\ op'  = [name |-> "_post_object", method |-> "POST", resp |-> resp]
         /\ res' = _post_object(resp)
    /\ UNCHANGED listVars

PutObject ==
    /\ op = NoOp
    /\ \E resp \in ReqResponses :
         /\ op'  = [name |-> "_put_object", method |-> "PUT", resp |-> resp]
         /\ res' = _put_object(resp)
    /\ UNCHANGED listVars

DeleteObject ==
    /\ op = NoOp
    /\ \E resp \in ReqResponses :
         /\ op'  = [name |-> "_delete_object", method |-> "DELETE", resp |-> resp]
         /\ res' = _delete_object(resp)
    /\ UNCHANGED listVars

\* update_custom_field: a PUT through _request, its result returned as it is
UpdateCustomField ==
    /\ op = NoOp
    /\ \E resp \in ReqResponses :
         /\ op'  = [name |-> "update_custom_field", method |-> "PUT", resp |-> resp]
         /\ res' = _request("PUT", resp)
    /\ UNCHANGED listVars

\* The caller has its result or its exception; the client is idle again
Complete ==
    /\ op # NoOp
    /\ op' = NoOp
    /\ res' = NoResult
    /\ UNCHANGED listVars

----------------------------------------------------------------------------
(* The listing path                                                        *)

Calls == {1, 2}
Dicts == {1, 2}

metadata_keys == {"offset", "total_count", "limit"}

\* d[k] = v on a dict
SetItem(o, k, v) ==
    IF HasKey(o, k)
    THEN JObj([n \in 1..Len(o.l) |-> IF o.l[n].k = k THEN KV(k, v) ELSE o.l[n]])
    ELSE JObj(Append(o.l, KV(k, v)))

\* len(x)
PyLen(v) ==
    CASE v.t = "str" -> Return(JInt(Len(v.s)))
      [] v.t \in {"list", "obj"} -> Return(JInt(Len(v.l)))
      [] OTHER -> Raise("TypeError", "object has no len()")

\* An extract_data whose next() has a default: no key gives an absent value
extract_data_default(data) ==
    IF data.t # "obj" THEN Raise("AttributeError", "no attribute 'keys'")
    ELSE LET rest == SelectSeq(data.l, LAMBDA kv : kv.k \notin metadata_keys)
         IN  IF rest = <<>> THEN Return(JNull)
             ELSE Return(Head(rest).v)

\* extract_data: data.get(next(k for k in data.keys() if k not in metadata_keys));
\* next() is given no default and raises StopIteration when no key is left
extract_data(data) ==
    IF data.t # "obj" THEN Raise("AttributeError", "no attribute 'keys'")
    ELSE LET rest == SelectSeq(data.l, LAMBDA kv : kv.k \notin metadata_keys)
         IN  IF rest = <<>> THEN Raise("StopIteration", "")
             ELSE Return(Head(rest).v)

\* What leaves the generator when its body raises: a StopIteration raised
\* inside a generator body reaches the caller as RuntimeError
Propagate(exc) ==
    IF exc.kind = "StopIteration"
    THEN Raise("RuntimeError", "generator raised StopIteration")
    ELSE exc

\* A cursor that leaves the limit and offset keys the caller supplied alone
FirstParamsKeep(params, limit) ==
    LET p == IF HasKey(params, "limit") THEN params
             ELSE SetItem(params, "limit", JInt(limit))
    IN  IF HasKey(p, "offset") THEN p ELSE SetItem(p, "offset", JInt(0))

\* The params mapping as the resumed generator leaves it before its request:
\* limit and offset set on the first page, offset advanced by the call's own
\* limit on a later one
FirstParams(params, limit) ==
    SetItem(SetItem(params, "limit", JInt(limit)), "offset", JInt(0))

AdvanceParams(params, limit) ==
    SetItem(params, "offset", JInt(Get(params, "offset", JNull).i + limit))

\* A loop that gives up one record short of total_count
LoopStopsEarly(processed, total_count) == processed + 1 < total_count

\* while processed < total_count
LoopContinues(processed, total_count) == processed < total_count

----------------------------------------------------------------------------
(* The server                                                              *)

Min(a, b) == IF a < b THEN a ELSE b

\* n records from offset on: record k is the integer k
Records(offset, n) == [k \in 1..n |-> JInt(offset + k)]

Envelope(limit, offset, payload, total_count) ==
    JObj(<<KV("limit", JInt(limit)), KV("offset", JInt(offset)),
           KV("devices", payload), KV("total_count", total_count)>>)

MetaOnly(limit, offset, total_count) ==
    JObj(<<KV("limit", JInt(limit)), KV("offset", JInt(offset)),
           KV("total_count", total_count)>>)

Ok(body) == [status |-> 200, json |-> TRUE, body |-> body]

\* records[offset : offset+limit] and total_count = total
HonestResponse(offset, limit) ==
    LET n == IF offset >= total THEN 0 ELSE Min(limit, total - offset)
    IN  Ok(Envelope(limit, offset, JList(Records(offset, n)), JInt(total)))

TotalCounts == { JInt(k) : k \in 0..MaxRecords } \cup { JStr("many"), JNull }

ArbitraryResponses(offset, limit) ==
    { Ok(Envelope(limit, offset, JList(Records(offset, n)), tc)) :
        n \in 0..limit, tc \in TotalCounts }
      \cup { Ok(Envelope(limit, offset, JNull, tc)) : tc \in TotalCounts }
      \cup { Ok(MetaOnly(limit, offset, tc)) : tc \in TotalCounts }
      \cup { Ok(JObj(<<>>)),
             [status |-> 404, json |-> TRUE, body |-> JObj(<<>>)],
             [status |-> 500, json |-> FALSE, body |-> JStr("<html>Server Error</html>")],
             [status |-> 500, json |-> TRUE,
              body |-> JObj(<<KV("msg", JStr("License expired for feature X"))>>)] }

\* The responses the server may give to a request carrying params
Responses(params) ==
    LET offset == Get(params, "offset", JNull).i
        limit  == Get(params, "limit", JNull).i
    IN  IF server = "honest" THEN { HonestResponse(offset, limit) }
        ELSE ArbitraryResponses(offset, limit)

----------------------------------------------------------------------------
(* The generator _paginated_request and the chain over it                  *)

\* The frame of a listing call before its first resume. params names the dict
\* object the call was handed (or the fresh one made for params=None).
NewFrame(limit, params) ==
    [pc |-> "created", limit |-> limit, params |-> params, request_num |-> 1,
     total_count |-> 0, processed |-> 0, resp |-> JNull, resp_data |-> JNull,
     err |-> "none"]

NoFrame == [NewFrame(1, 1) EXCEPT !.pc = "none"]

Suspended(g) == g.pc \in {"created", "first", "loop"}

\* A page request that also fetches the page after it ahead of time
page_request_prefetch(log, params) ==
    Append(Append(log, params),
           SetItem(params, "offset",
                   JInt(Get(params, "offset", JNull).i + Get(params, "limit", JNull).i)))

\* page_request: one request is sent, carrying the params mapping as it is now
page_request(log, params) == Append(log, params)

Fail(g, exc) == [g EXCEPT !.pc = "raised", !.err = Propagate(exc).kind]

\* A first page that reads total_count before it looks at the payload
FirstPageCountFirst(g, resp) ==
    LET r    == _request("GET", resp)
        g1   == IF Raised(r) THEN g ELSE [g EXCEPT !.resp = r.val]
        data == IF Raised(r) THEN r ELSE extract_data(r.val)
        total_count == IF Raised(data) THEN data
                       ELSE int_cast(Get(r.val, "total_count", JNull))
    IN  IF Raised(data) THEN Fail(g1, data)
        ELSE IF Raised(total_count)
             THEN Fail([g1 EXCEPT !.resp_data = data.val], total_count)
        ELSE IF ~Truthy(data.val)
             THEN [g1 EXCEPT !.pc = "done", !.resp_data = data.val]
        ELSE [g1 EXCEPT !.pc = "first", !.resp_data = data.val,
                        !.total_count = total_count.val.i]

\* Lines 109-120: the first request, up to the first yield
FirstPage(g, resp) ==
    LET r    == _request("GET", resp)
        g1   == IF Raised(r) THEN g ELSE [g EXCEPT !.resp = r.val]
        data == IF Raised(r) THEN r ELSE extract_data(r.val)
    IN  IF Raised(data) THEN Fail(g1, data)
        ELSE IF ~Truthy(data.val)
             THEN [g1 EXCEPT !.pc = "done", !.resp_data = data.val]
        ELSE LET total_count == int_cast(Get(r.val, "total_count", JNull))
             IN  IF Raised(total_count) THEN Fail([g1 EXCEPT !.resp_data = data.val],
                                                  total_count)
                 ELSE [g1 EXCEPT !.pc = "first", !.resp_data = data.val,
                                 !.total_count = total_count.val.i]

\* A loop body that takes a failed request for an empty page and goes on, so
\* that the next resume asks again
LaterPageRetry(g, resp) ==
    LET r    == _request("GET", resp)
        g1   == IF Raised(r) THEN [g EXCEPT !.request_num = @ + 1]
                ELSE [g EXCEPT !.request_num = @ + 1, !.resp = r.val]
        data == IF Raised(r) THEN Return(JList(<<>>)) ELSE extract_data(r.val)
        n    == IF Raised(data) THEN data ELSE PyLen(data.val)
    IN  IF Raised(data) THEN Fail(g1, data)
        ELSE IF Raised(n) THEN Fail([g1 EXCEPT !.resp_data = data.val], n)
        ELSE [g1 EXCEPT !.pc = "loop", !.resp_data = data.val,
                        !.processed = @ + n.val.i]

\* Lines 126-135: one turn of the loop, up to its yield
LaterPage(g, resp) ==
    LET r    == _request("GET", resp)
        g1   == IF Raised(r) THEN [g EXCEPT !.request_num = @ + 1]
                ELSE [g EXCEPT !.request_num = @ + 1, !.resp = r.val]
        data == IF Raised(r) THEN r ELSE extract_data(r.val)
        n    == IF Raised(data) THEN data ELSE PyLen(data.val)
    IN  IF Raised(data) THEN Fail(g1, data)
        ELSE IF Raised(n) THEN Fail([g1 EXCEPT !.resp_data = data.val], n)
        ELSE [g1 EXCEPT !.pc = "loop", !.resp_data = data.val,
                        !.processed = @ + n.val.i]

\* The generator is resumed (next() on it): it runs to its next yield, to its
\* return or to an exception. The chain of _flattened_paginated_request
\* resumes it only when the page it is iterating is used up.
Pull(c) ==
    LET g         == gen[c]
        d         == g.params
        first     == g.pc = "created"
        processed == IF g.pc = "first" THEN PyLen(g.resp_data).val.i ELSE g.processed
        g1        == [g EXCEPT !.processed = processed]
    IN  /\ Suspended(g)
        /\ cur[c] = <<>>
        /\ pulls' = [pulls EXCEPT ![c] = @ + 1]
        /\ IF first \/ LoopContinues(processed, g.total_count)
           THEN LET p == IF first THEN FirstParams(heap[d], g.limit)
                         ELSE AdvanceParams(heap[d], g.limit)
                IN  /\ Len(requests[c]) < MaxRequests
                    /\ heap' = [heap EXCEPT ![d] = p]
                    /\ requests' = [requests EXCEPT ![c] = page_request(@, p)]
                    /\ \E resp \in Responses(p) :
                         LET g2 == IF first THEN FirstPage(g1, resp)
                                   ELSE LaterPage(g1, resp)
                         IN  /\ gen' = [gen EXCEPT ![c] = g2]
                             /\ statuses' = [statuses EXCEPT ![c] = Append(@, resp.status)]
                             /\ IF Suspended(g2)
                                THEN /\ pages' = [pages EXCEPT ![c] = Append(@, g2.resp_data)]
                                     /\ cur' = [cur EXCEPT ![c] = Items(g2.resp_data)]
                                ELSE UNCHANGED <<pages, cur>>
           ELSE /\ gen' = [gen EXCEPT ![c] = [g1 EXCEPT !.pc = "done"]]
                /\ UNCHANGED <<heap, requests, pages, cur, statuses>>
        /\ UNCHANGED <<out, total, server, supplied, reqVars>>

\* chain.from_iterable hands out the next record of the page it is iterating
Take(c) ==
    /\ cur[c] # <<>>
    /\ out' = [out EXCEPT ![c] = Append(@, Head(cur[c]))]
    /\ cur' = [cur EXCEPT ![c] = Tail(@)]
    /\ UNCHANGED <<gen, heap, requests, pages, pulls, statuses, supplied, total, server,
                   reqVars>>

\* The caller stops pulling and drops the sequence: the generator is closed
Stop(c) ==
    /\ Suspended(gen[c])
    /\ gen' = [gen EXCEPT ![c].pc = "closed"]
    /\ cur' = [cur EXCEPT ![c] = <<>>]
    /\ UNCHANGED <<out, heap, requests, pages, pulls, statuses, supplied, total, server,
                   reqVars>>

\* next() on a generator that has returned or raised: StopIteration at once
PullAgain(c) ==
    /\ gen[c].pc \in {"done", "raised"}
    /\ pulls[c] <= MaxRequests
    /\ pulls' = [pulls EXCEPT ![c] = @ + 1]
    /\ UNCHANGED <<gen, cur, out, heap, requests, pages, statuses, supplied, total, server,
                   reqVars>>

----------------------------------------------------------------------------
(* Specifications                                                          *)

\* What a caller may hand over as params: nothing (a fresh dict is made), its
\* filters, or filters with limit and offset keys of its own
InitialParams ==
    { JObj(<<>>),
      JObj(<<KV("name", JStr("hq"))>>),
      JObj(<<KV("limit", JInt(MaxLimit + 1)), KV("name", JStr("hq")),
             KV("offset", JInt(1))>>) }

EmptyLog == [c \in Calls |-> <<>>]

\* Listing calls: one call against any server, or two calls, with their own
\* params mappings or with the same one, against an honest server.
Init ==
    /\ op = NoOp
    /\ res = NoResult
    /\ server \in {"honest", "arbitrary"}
    /\ total \in 0..MaxRecords
    /\ server = "arbitrary" => total = 0
    /\ heap \in [Dicts -> InitialParams]
    /\ supplied = heap
    /\ \E l1, l2 \in 1..MaxLimit, d2 \in Dicts, two \in BOOLEAN :
         /\ two => server = "honest"
         /\ ~two => (l2 = 1 /\ d2 = 1 /\ heap[2] = JObj(<<>>))
         /\ gen = [c \in Calls |->
                     IF c = 1 THEN NewFrame(l1, 1)
                     ELSE IF two THEN NewFrame(l2, d2) ELSE NoFrame]
    /\ requests = EmptyLog
    /\ pages = EmptyLog
    /\ cur = EmptyLog
    /\ out = EmptyLog
    /\ pulls = [c \in Calls |-> 0]
    /\ statuses = EmptyLog

Next ==
    \E c \in Calls : Pull(c) \/ Take(c) \/ Stop(c) \/ PullAgain(c)

Spec == Init /\ [][Next]_vars

\* Single-object operations, one after the other
InitReq ==
    /\ op = NoOp
    /\ res = NoResult
    /\ server = "honest"
    /\ total = 0
    /\ heap = [d \in Dicts |-> JObj(<<>>)]
    /\ supplied = heap
    /\ gen = [c \in Calls |-> NoFrame]
    /\ requests = EmptyLog
    /\ pages = EmptyLog
    /\ cur = EmptyLog
    /\ out = EmptyLog
    /\ pulls = [c \in Calls |-> 0]
    /\ statuses = EmptyLog

NextReq ==
    \/ GetObject
    \/ PostObject
    \/ PutObject
    \/ DeleteObject
    \/ UpdateCustomField
    \/ Complete

SpecReq == InitReq /\ [][NextReq]_vars

----------------------------------------------------------------------------
(* Properties of the listing path                                          *)

Ceil(a, b) == (a + b - 1) \div b

Started(c) == pulls[c] > 0

\* Another call that has run works on the same params mapping
Aliased(c) ==
    \E c2 \in Calls \ {c} : Started(c2) /\ gen[c2].params = gen[c].params

\* The listing of call c has been consumed to its end
Consumed(c) == gen[c].pc = "done" /\ cur[c] = <<>>

SentOffset(c, k) == Get(requests[c][k], "offset", JNull).i
SentLimit(c, k)  == Get(requests[c][k], "limit", JNull).i

\* C1: against a server that holds total >= 1 records and answers
\* records[offset : offset+limit] with total_count = total, a fully consumed
\* listing with page size L has issued exactly ceil(total/L) requests, at
\* offsets 0, L, 2L, ..., and its flattened output is the records 1..total,
\* each once and in order. (The call has its params mapping to itself.)
C1_FullListing ==
    \A c \in Calls :
        ( /\ server = "honest"
          /\ total >= 1
          /\ Consumed(c)
          /\ ~Aliased(c) )
        => /\ Len(requests[c]) = Ceil(total, gen[c].limit)
           /\ \A k \in 1..Len(requests[c]) :
                /\ SentOffset(c, k) = (k - 1) * gen[c].limit
                /\ SentLimit(c, k) = gen[c].limit
           /\ out[c] = Records(0, total)

\* A three-record listing with page size 2 was consumed in two requests
C1_Witness ==
    /\ server = "honest"
    /\ total = 3
    /\ gen[1].limit = 2
    /\ Consumed(1)
    /\ ~Aliased(1)
    /\ Len(requests[1]) = 2
    /\ Len(out[1]) = 3

IsEmptyPage(page) == page.t = "list" /\ page.l = <<>>

\* C2: a listing always ends: once a page with zero records has come back,
\* the listing issues no further request (the k-th page being empty, no more
\* than k requests are ever issued).
C2_EmptyPageEnds ==
    \A c \in Calls :
        ~Aliased(c) =>
            \A k \in 1..Len(pages[c]) :
                IsEmptyPage(pages[c][k]) => Len(requests[c]) <= k

\* C3: no prefetch. At every point the requests issued are at most the pulls
\* made and at most one more than the pages delivered; a request is issued
\* only by a pull, one per pull, when every record of the pages before it has
\* been handed out; a call the caller has dropped issues none.
C3_Inv ==
    \A c \in Calls :
        /\ Len(requests[c]) <= pulls[c]
        /\ Len(requests[c]) <= Len(pages[c]) + 1
        /\ pulls[c] = 1 => Len(requests[c]) = 1

C3_Step ==
    \A c \in Calls :
        requests'[c] # requests[c]
        => /\ pulls'[c] = pulls[c] + 1
           /\ Len(requests'[c]) = Len(requests[c]) + 1
           /\ cur[c] = <<>>
           /\ gen[c].pc # "closed"

C3_NoPrefetch == [](C3_Inv) /\ [][C3_Step]_vars

\* Only the first page of a three-page listing was consumed, and the caller
\* stopped: one request
C3_Witness ==
    /\ server = "honest"
    /\ total = 3
    /\ gen[1].limit = 1
    /\ gen[1].pc = "closed"
    /\ pulls[1] = 1
    /\ Len(out[1]) = 1
    /\ Len(requests[1]) = 1

\* The envelope the first request of call c got carries a payload that is
\* empty: an empty sequence or null
EmptyFirst(c) ==
    /\ Len(requests[c]) = 1
    /\ gen[c].resp.t = "obj"
    /\ HasKey(gen[c].resp, "devices")
    /\ ~Truthy(Get(gen[c].resp, "devices", JNull))

\* C4: when the payload of the first page is empty, the listing has issued
\* one request and issues no other, produces no page and no record, and ends
\* without an error whatever total_count is (it is not read).
C4_Inv ==
    \A c \in Calls :
        EmptyFirst(c)
        => /\ gen[c].pc = "done"
           /\ gen[c].err = "none"
           /\ pages[c] = <<>>
           /\ cur[c] = <<>>
           /\ out[c] = <<>>

C4_Step == \A c \in Calls : EmptyFirst(c) => requests'[c] = requests[c]

C4_EmptyFirstPage == [](C4_Inv) /\ [][C4_Step]_vars

\* An empty first page whose total_count is not an integer, pulled again
C4_Witness ==
    /\ EmptyFirst(1)
    /\ Get(gen[1].resp, "devices", JNull).t = "null"
    /\ Get(gen[1].resp, "total_count", JNull).t = "str"
    /\ gen[1].pc = "done"
    /\ pulls[1] = 2

\* What call c requests and yields when it runs alone against the honest
\* server (C1): page k is asked for at offset (k-1)*L with limit L
AloneCount(c) == IF total = 0 THEN 1 ELSE Ceil(total, gen[c].limit)

AlonePage(c, k) ==
    LET offset == (k - 1) * gen[c].limit
    IN  JList(Records(offset, Min(gen[c].limit, total - offset)))

\* C5: listing calls are independent: however the pulls of two calls
\* interleave, and also when both were handed the same params mapping, each
\* call issues the requests and yields the pages it would when run alone.
C5_Independent ==
    server = "honest" =>
        \A c \in Calls :
            /\ Len(requests[c]) <= AloneCount(c)
            /\ \A k \in 1..Len(requests[c]) :
                 /\ SentOffset(c, k) = (k - 1) * gen[c].limit
                 /\ SentLimit(c, k) = gen[c].limit
            /\ \A k \in 1..Len(pages[c]) : pages[c][k] = AlonePage(c, k)

\* The same, for calls that were handed different mappings (or none)
C5_SeparateParams ==
    (server = "honest" /\ gen[1].params # gen[2].params) => C5_Independent

\* A response with no discoverable payload key: an object whose keys are all
\* metadata keys, or no keys at all
NoPayloadKey(resp) ==
    /\ resp.t = "obj"
    /\ \A n \in 1..Len(resp.l) : resp.l[n].k \in {"offset", "limit", "total_count"}

\* C10: a list response with no payload key makes the listing fail at the
\* pull that received it, on the first page or a later one: it raises, yields
\* no page for that response and does not end as if exhausted.
C10_NoKeyFails ==
    \A c \in Calls :
        (Started(c) /\ NoPayloadKey(gen[c].resp))
        => /\ gen[c].pc = "raised"
           /\ gen[c].err = "RuntimeError"
           /\ Len(pages[c]) = Len(requests[c]) - 1
           /\ \A k \in 1..Len(pages[c]) : pages[c][k].t # "null"

\* The second response of a listing had no payload key
C10_Witness ==
    /\ Len(requests[1]) = 2
    /\ Len(pages[1]) = 1
    /\ NoPayloadKey(gen[1].resp)
    /\ gen[1].pc = "raised"

----------------------------------------------------------------------------
(* Properties of the request path                                          *)

Called == op # NoOp

MsgOf(resp) == Get(resp.body, "msg", JStr(""))

\* The response body decodes to a JSON object
ObjectBody(resp) == resp.json /\ resp.body.t = "obj"

StringMsg(resp) == ObjectBody(resp) /\ MsgOf(resp).t = "str"

LicenseExpiredMsg(resp) ==
    StringMsg(resp) /\ StartsWith(MsgOf(resp).s, "License expired")

LicenseInsufficientMsg(resp) ==
    StringMsg(resp) /\ StartsWith(MsgOf(resp).s, "License is not valid for")

\* A license error: a 500 whose message starts with one of the two prefixes
LicenseResponse(resp) ==
    resp.status = 500 /\ (LicenseExpiredMsg(resp) \/ LicenseInsufficientMsg(resp))

LicenseKinds == {"LicenseExpiredException", "LicenseInsufficientException"}

\* C6: every error response (4xx, 5xx) that is not a license error fails with
\* the generic HTTP error carrying its status code and body, whatever the
\* status, whether or not the body decodes, and whatever the decoded body
\* and its msg are; no other kind of error leaves _request.
C6_GenericError ==
    (Called /\ op.resp.status >= 400 /\ ~LicenseResponse(op.resp))
    => /\ res.kind = "HTTPError"
       /\ res.status = op.resp.status
       /\ res.val = op.resp.body

\* C7: a 500 whose msg starts with "License expired" fails with
\* LicenseExpiredException carrying msg, one whose msg starts with "License is
\* not valid for" with LicenseInsufficientException carrying msg, and no
\* response with another status is classified as a license error.
C7_LicenseErrors ==
    Called =>
        /\ (op.resp.status = 500 /\ LicenseExpiredMsg(op.resp))
           => (res.kind = "LicenseExpiredException" /\ res.msg = MsgOf(op.resp).s)
        /\ (op.resp.status = 500 /\ LicenseInsufficientMsg(op.resp))
           => (res.kind = "LicenseInsufficientException" /\ res.msg = MsgOf(op.resp).s)
        /\ op.resp.status # 500 => res.kind \notin LicenseKinds

\* A 500 with "License is not valid for this module" was classified
C7_Witness ==
    /\ Called
    /\ op.resp.status = 500
    /\ StringMsg(op.resp)
    /\ MsgOf(op.resp).s = "License is not valid for this module"
    /\ res.kind = "LicenseInsufficientException"

\* A 2xx response to a POST or PUT whose body is an object with an integer code
Envelope2xx ==
    /\ Called
    /\ op.method \in {"POST", "PUT"}
    /\ op.resp.status \in 200..299
    /\ ObjectBody(op.resp)
    /\ Get(op.resp.body, "code", JNull).t = "int"

CodeOf(resp) == Get(resp.body, "code", JNull).i

AllStrings(l) == \A n \in 1..Len(l) : l[n].t = "str"

MsgAbsent(resp)      == ~HasKey(resp.body, "msg")
MsgString(resp)      == HasKey(resp.body, "msg") /\ MsgOf(resp).t = "str"
MsgStringList(resp)  == HasKey(resp.body, "msg") /\ MsgOf(resp).t = "list"
                        /\ AllStrings(MsgOf(resp).l)
MsgTuple(resp)       == HasKey(resp.body, "msg") /\ MsgOf(resp).t = "list"
                        /\ Len(MsgOf(resp).l) \in 3..5

\* The message the rejection carries: msg itself when it is one string, its
\* strings joined by single spaces when it is a list, "" when it is absent
RejectionText(resp) ==
    IF MsgAbsent(resp) THEN ""
    ELSE IF MsgString(resp) THEN MsgOf(resp).s
    ELSE Join(" ", [n \in 1..Len(MsgOf(resp).l) |-> MsgOf(resp).l[n].s])

\* C8: a 2xx POST or PUT response with a non-zero code fails with
\* ReturnCodeException whose message is the space-joined string form of msg,
\* for msg one string or a list of strings, and "" for msg absent; a response
\* with code 0 never raises ReturnCodeException.
C8_ReturnCode ==
    Envelope2xx =>
        /\ ( /\ CodeOf(op.resp) # 0
             /\ (MsgAbsent(op.resp) \/ MsgString(op.resp) \/ MsgStringList(op.resp)) )
           => (res.kind = "ReturnCodeException" /\ res.msg = RejectionText(op.resp))
        /\ CodeOf(op.resp) = 0 => res.kind # "ReturnCodeException"

\* The same without the case of msg being one string
C8_ListOrAbsent ==
    Envelope2xx =>
        /\ ( /\ CodeOf(op.resp) # 0
             /\ (MsgAbsent(op.resp) \/ MsgStringList(op.resp)) )
           => (res.kind = "ReturnCodeException" /\ res.msg = RejectionText(op.resp))
        /\ CodeOf(op.resp) = 0 => res.kind # "ReturnCodeException"

\* C9: a _post_object or _put_object call whose response has code 0 returns
\* a PostRes whose fields are the elements of msg in order (created and
\* updated None when msg has three elements), and every success envelope the
\* interface allows (msg a string, a list of strings, the tuple shape, or
\* absent) gives a PostRes, not an error.
C9_MutationResult ==
    ( /\ Envelope2xx
      /\ op.name \in {"_post_object", "_put_object"}
      /\ CodeOf(op.resp) = 0
      /\ \/ MsgAbsent(op.resp)
         \/ MsgString(op.resp)
         \/ MsgStringList(op.resp)
         \/ MsgTuple(op.resp) )
    => /\ res.kind = "PostRes"
       /\ MsgTuple(op.resp) =>
            LET m == MsgOf(op.resp).l
            IN  /\ res.val.message = m[1]
                /\ res.val.id = m[2]
                /\ res.val.identifier = m[3]
                /\ res.val.created = (IF Len(m) >= 4 THEN m[4] ELSE JNull)
                /\ res.val.updated = (IF Len(m) >= 5 THEN m[5] ELSE JNull)

\* The same for the tuple shape alone
C9_TupleOnly ==
    ( /\ Envelope2xx
      /\ op.name \in {"_post_object", "_put_object"}
      /\ CodeOf(op.resp) = 0
      /\ MsgTuple(op.resp) )
    => C9_MutationResult

----------------------------------------------------------------------------
(* Failure of a later page, and what every request carries                 *)

Last(seq) == seq[Len(seq)]

\* The request for a page after the first came back with an error status
LaterRequestFailed(c) ==
    /\ Len(statuses[c]) >= 2
    /\ Last(statuses[c]) >= 400

\* C11: when the request for page N > 1 fails, the error reaches the caller
\* at the pull that asks for page N (the N-th); pages 1..N-1 were delivered
\* and stay as they were; the failed request is not sent again and no request
\* follows it, also when the caller pulls again.
C11_Inv ==
    \A c \in Calls :
        LaterRequestFailed(c)
        => /\ gen[c].pc = "raised"
           /\ gen[c].err \in {"HTTPError"} \cup LicenseKinds
           /\ Len(requests[c]) = Len(statuses[c])
           /\ Len(pages[c]) = Len(statuses[c]) - 1
           /\ pulls[c] >= Len(statuses[c])
           /\ \A k \in 1..Len(pages[c]) :
                /\ pages[c][k].t = "list"
                /\ pages[c][k].l = Records(SentOffset(c, k), Len(pages[c][k].l))

C11_Step ==
    \A c \in Calls :
        /\ (~LaterRequestFailed(c) /\ LaterRequestFailed(c)')
           => /\ pulls'[c] = Len(statuses'[c])
              /\ Len(pages[c]) = Len(statuses[c])
              /\ pages'[c] = pages[c]
        /\ LaterRequestFailed(c)
           => /\ requests'[c] = requests[c]
              /\ statuses'[c] = statuses[c]
              /\ pages'[c] = pages[c]
              /\ gen'[c] = gen[c]

C11_LaterPageFailure == [](C11_Inv) /\ [][C11_Step]_vars

\* The second request failed, one page had been delivered, and the caller
\* pulled once more
C11_Witness ==
    /\ statuses[1] = <<200, 500>>
    /\ Len(pages[1]) = 1
    /\ Len(requests[1]) = 2
    /\ gen[1].pc = "raised"
    /\ gen[1].err = "HTTPError"
    /\ pulls[1] = 3

\* The items of a params mapping other than the cursor's
Filters(params) == SelectSeq(params.l, LAMBDA kv : kv.k \notin {"limit", "offset"})

\* C12: every request of a listing call carries limit = the page-size
\* argument, and its k-th request offset = (k-1) * page size, whatever limit
\* and offset the caller put in params and however many records the pages
\* before it held; the caller's other parameters are sent as supplied on
\* every request. (The call has its params mapping to itself.)
C12_CursorSent ==
    \A c \in Calls :
        ~Aliased(c) =>
            \A k \in 1..Len(requests[c]) :
                /\ SentLimit(c, k) = gen[c].limit
                /\ SentOffset(c, k) = (k - 1) * gen[c].limit
                /\ Filters(requests[c][k]) = Filters(supplied[gen[c].params])

\* A caller that put its own limit and offset in params; the first page came
\* back short of the page size, and a second request was sent
C12_Witness ==
    /\ HasKey(supplied[1], "limit")
    /\ HasKey(supplied[1], "offset")
    /\ HasKey(supplied[1], "name")
    /\ ~Aliased(1)
    /\ gen[1].limit = 2
    /\ Len(requests[1]) >= 2
    /\ Len(pages[1][1].l) = 1

====
